---- MODULE Spec2Model ----
(***************************************************************************)
(* Model of the concurrent downloader of src/updating_csv_to_json.py: the  *)
(* sqlite job ledger, the FileTokenManager, the two-stage fetch            *)
(* (fetch_metadata, fetch_report), process_one, the worker_pool dispatch   *)
(* loop with its semaphore and gather barrier, and main(): the process     *)
(* ending on an interrupt or an exception and being started again on the   *)
(* ledger it left.                                                         *)
(*                                                                         *)
(* Granularity: asyncio is cooperative, so one action is the code a task   *)
(* runs between two awaits that can suspend it.  The CSV watcher is a real *)
(* thread; each of its db_upsert_job calls is one action.                  *)
(*                                                                         *)
(* Python None / SQL NULL is the empty sequence, a present value x is the  *)
(* one-element sequence <<x>> (Some(x)).  Strings that the code inspects   *)
(* character by character (the report URL) are sequences of characters.    *)
(***************************************************************************)
EXTENDS Integers, Sequences, FiniteSets, TLC

\* ====================== CONFIG ======================

MAX_RETRIES == 5

\* BACKOFF_BASE_S = 1.5 s, counted in half seconds
BACKOFF_BASE_S == 3

\* Largest --concurrency the model runs with
MaxConc == 2

\* Largest number of times the credential source writes the token file in a run
MaxWrites == 2

None == <<>>

Some(x) == <<x>>

\* ====================== inputs ======================

\* URLs of the CSV: sequences of path segments ("" after a trailing slash).
\* Two URLs share the final non-empty segment g1, one URL has no segment.
Urls == { <<"reports", "g1">>, <<"old", "g1", "">>, <<"reports", "g2">>, <<>> }

\* Bearer tokens the credential source can write: Some("A"), Some("B")
Tokens == { <<"A">>, <<"B">> }

\* HTTP statuses the endpoints answer, one per branch of the fetch loops
Statuses == { 200, 401, 404, 500 }

AUTH_STATUSES == { 401, 403 }

RETRY_STATUSES == { 429, 500, 502, 503, 504 }

\* Report URLs a metadata document can carry (characters)
ReportUrls == { <<"x", ".", "P", "d", "f">>, <<"x">> }

\* Payloads of the content endpoint (bytes)
Contents == { <<>>, <<7, 7>> }

\* Shapes of a metadata body: text that json.loads rejects, a falsy JSON value
\* ({}, null, [], 0), a truthy JSON value that is no object ([1], "x", 5), or an
\* object, with or without a reportUrl
Bodies ==
    { [kind |-> "garbage", reportUrl |-> None],
      [kind |-> "falsy", reportUrl |-> None],
      [kind |-> "nondict", reportUrl |-> None],
      [kind |-> "dict", reportUrl |-> None] }
    \cup { [kind |-> "dict", reportUrl |-> Some(u)] : u \in ReportUrls }

\* ====================== HELPERS ======================

Alnum == { "x", "P", "d", "f", "p" }

Lower(c) == IF c = "P" THEN "p" ELSE c

\* SAFE_EXT_RE matched at position i with a group of n characters
ExtAt(url, i, n) ==
    /\ url[i] = "."
    /\ i + n <= Len(url)
    /\ \A k \in (i + 1)..(i + n) : url[k] \in Alnum
    /\ \/ i + n = Len(url)
       \/ url[i + n + 1] \in { "?", "#" }

\* mutant: the extension as the URL spells it, without .lower()
guess_ext_keep_case(url) ==
    LET hits == { i \in 1..Len(url) : \E n \in 1..5 : ExtAt(url, i, n) }
    IN  IF hits = {} THEN <<".", "j", "s", "o", "n">>
        ELSE LET i == CHOOSE h \in hits : \A o \in hits : h <= o
                 n == CHOOSE m \in 1..5 : ExtAt(url, i, m)
             IN  <<".">> \o [k \in 1..n |-> url[i + k]]

guess_ext(url) ==
    LET hits == { i \in 1..Len(url) : \E n \in 1..5 : ExtAt(url, i, n) }
    IN  IF hits = {} THEN <<".", "j", "s", "o", "n">>
        ELSE LET i == CHOOSE h \in hits : \A o \in hits : h <= o
                 n == CHOOSE m \in 1..5 : ExtAt(url, i, m)
             IN  <<".">> \o [k \in 1..n |-> Lower(url[i + k])]

extract_guid_from_url(url) ==
    LET segs == SelectSeq(url, LAMBDA s : s # "")
    IN  IF Len(segs) > 0 THEN Some(segs[Len(segs)]) ELSE None

\* ====================== DB ======================

\* time.time() at a write: later than every updated_at in the table.  Only the
\* order of timestamps is observable (ORDER BY updated_at), so after a write
\* the timestamps are renumbered 1..n in their order.
Compact(J) ==
    { [r EXCEPT !.updated_at =
          Cardinality({ q \in J : q.updated_at < r.updated_at }) + 1] : r \in J }

Now(J) == Cardinality(J) + 1

NewRow(guid, url, now) ==
    [guid |-> guid, url |-> url, status |-> "pending", tries |-> 0,
     http_status_meta |-> None, http_status_report |-> None,
     path |-> None, size_bytes |-> None, updated_at |-> now]

\* mutant: INSERT OR REPLACE
db_replace_job(J, guid, url) ==
    Compact({ r \in J : r.guid # guid } \cup { NewRow(guid, url, Now(J)) })

db_upsert_job(J, guid, url) ==
    IF \E r \in J : r.guid = guid
    THEN J
    ELSE Compact(J \cup { NewRow(guid, url, Now(J)) })

\* mutant: the WHERE clause without "status IN ('pending','failed')"
ClaimableAlsoDone(r) == r.tries < MAX_RETRIES

\* mutant: the WHERE clause without "tries < ?"
ClaimableAnyTries(r) == r.status \in { "pending", "failed" }

Claimable(r) == r.status \in { "pending", "failed" } /\ r.tries < MAX_RETRIES

RECURSIVE OrderByUpdatedAt(_)
OrderByUpdatedAt(R) ==
    IF R = {} THEN <<>>
    ELSE LET r == CHOOSE x \in R : \A y \in R : x.updated_at <= y.updated_at
         IN  <<r>> \o OrderByUpdatedAt(R \ { r })

\* mutant: ORDER BY updated_at DESC
db_next_batch_newest_first(J, n) ==
    LET sorted == OrderByUpdatedAt({ r \in J : Claimable(r) })
        m      == Len(sorted)
    IN  [k \in 1..(IF m < n THEN m ELSE n) |->
            [guid |-> sorted[m + 1 - k].guid, url |-> sorted[m + 1 - k].url,
             tries |-> sorted[m + 1 - k].tries]]

db_next_batch(J, n) ==
    LET sorted == OrderByUpdatedAt({ r \in J : Claimable(r) })
    IN  [k \in 1..(IF Len(sorted) < n THEN Len(sorted) ELSE n) |->
            [guid |-> sorted[k].guid, url |-> sorted[k].url, tries |-> sorted[k].tries]]

\* UPDATE jobs SET <kw>, updated_at=? WHERE guid=?; kw is the record of the
\* keyword arguments
db_mark(J, guid, kw) ==
    LET set == kw @@ [updated_at |-> Now(J)]
    IN  Compact({ IF r.guid = guid
                  THEN [f \in DOMAIN r |-> IF f \in DOMAIN set THEN set[f] ELSE r[f]]
                  ELSE r : r \in J })

\* mutant: the UPDATE without "tries = tries + 1"
db_touch(J, guid) ==
    Compact({ IF r.guid = guid
              THEN [r EXCEPT !.updated_at = Now(J)]
              ELSE r : r \in J })

db_inc_try(J, guid) ==
    Compact({ IF r.guid = guid
              THEN [r EXCEPT !.tries = r.tries + 1, !.updated_at = Now(J)]
              ELSE r : r \in J })

\* ====================== state ======================

VARIABLES
    jobs,        \* the jobs table: a set of rows
    files,       \* reports/ directory: set of <<path, content>> written
    errors,      \* errors/ directory: the payload of <guid>.json, one per guid
    tokFile,     \* the token file: [token, mtime]; mtime 0 when it does not exist
    cache,       \* FileTokenManager: [token |-> _cached_token, mtime |-> _cached_mtime]
    pool,        \* where worker_pool is: "loop", "gather", or the process has
                 \* ended: "crashed" (exception) or "exited" (interrupt)
    tasks,       \* the run_one tasks of the current batch, in batch order
    sem,         \* value of the asyncio.Semaphore
    max_conc,    \* --concurrency
    needs_auth,  \* the needs_auth of fetch_report (APPLY_AUTH_TO_REPORT_URL, False
                 \* as shipped)
    csv,         \* the URLs the CSV file will ever list
    server,      \* what the two endpoints answer in this run: [statuses, bodies,
                 \* contents, transport (requests can fail below HTTP)]
    writes,      \* writes of the token file the credential source has still to make
    outage       \* guids whose metadata endpoint answers 500 to every request

\* the environment of a run: fixed by Init
env == <<max_conc, needs_auth, csv, server, outage>>

vars == <<jobs, files, errors, tokFile, cache, pool, tasks, sem, writes, env>>

\* ====================== Token Manager ======================

\* mutant: get() without "if tok:", the entry is replaced by an empty read too
GetReplaceWithEmpty(file, c) ==
    IF c.token = None \/ file.mtime # c.mtime
    THEN [token |-> file.token, mtime |-> file.mtime]
    ELSE c

\* FileTokenManager.get: the cache after the call; the call returns its token
Get(file, c) ==
    IF c.token = None \/ file.mtime # c.mtime
    THEN IF file.token # None
         THEN [token |-> file.token, mtime |-> file.mtime]
         ELSE c
    ELSE c

\* mutant: the wait returns on any token that is set
UpdatedAnyToken(tok, old_token) == tok # None

\* the test of one round of wait_for_update's loop on the token get() returned
Updated(tok, old_token) == tok # None /\ tok # old_token

Bearer(token) == <<"Bearer ">> \o token

\* ====================== Init ======================

\* A run starts with an empty ledger (first start) in one of five environments:
\*   EnvPool    two jobs, one or more at a time, under a token that stays valid,
\*              against endpoints that answer at once (200, 404, odd bodies);
\*   EnvRetry   two jobs, one at a time, against endpoints that also answer
\*              500, the metadata endpoint possibly down for one job;
\*   EnvFetch   one job against endpoints with the whole repertoire;
\*   EnvAuth    one job under a credential source that rewrites the token file,
\*              fetch_report with and without the credential attached;
\*   EnvStall   two jobs, one at a time, against a metadata endpoint that can
\*              answer 401 while the credential source never writes again.
\* The environments keep the retry loops (MAX_RETRIES rounds per stage, per
\* attempt) of concurrent jobs from multiplying with every input at once.
PdfUrl == <<"x", ".", "P", "d", "f">>

EnvPool ==
    /\ csv = { <<"reports", "g1">>, <<"reports", "g2">> }
    /\ max_conc \in 1..MaxConc
    /\ needs_auth = FALSE
    /\ outage = {}
    /\ server = [statuses |-> { 200, 404 },
                 bodies |-> { [kind |-> "nondict", reportUrl |-> None],
                              [kind |-> "dict", reportUrl |-> Some(PdfUrl)] },
                 contents |-> { <<7, 7>> },
                 transport |-> FALSE]
    /\ tokFile = [token |-> <<"A">>, mtime |-> 1]
    /\ writes = 0

EnvFetch ==
    /\ csv = { <<"reports", "g1">>, <<"old", "g1", "">>, <<>> }
    /\ max_conc = 1
    /\ needs_auth = FALSE
    /\ outage = {}
    /\ server = [statuses |-> Statuses, bodies |-> Bodies, contents |-> Contents,
                 transport |-> TRUE]
    /\ tokFile = [token |-> <<"A">>, mtime |-> 1]
    /\ writes = 0

EnvAuth ==
    /\ csv = { <<"reports", "g1">> }
    /\ max_conc = 1
    /\ needs_auth \in BOOLEAN
    /\ outage = {}
    /\ server = [statuses |-> { 200, 401 },
                 bodies |-> { [kind |-> "dict", reportUrl |-> Some(PdfUrl)] },
                 contents |-> { <<7, 7>> },
                 transport |-> FALSE]
    /\ tokFile \in { [token |-> None, mtime |-> 0], [token |-> <<"A">>, mtime |-> 1] }
    /\ writes = MaxWrites

EnvRetry ==
    /\ csv = { <<"reports", "g1">>, <<"reports", "g2">> }
    /\ max_conc = 1
    /\ needs_auth = FALSE
    /\ outage \in { {}, { "g1" } }
    /\ server = [statuses |-> { 200, 404, 500 },
                 bodies |-> { [kind |-> "dict", reportUrl |-> Some(PdfUrl)] },
                 contents |-> { <<7, 7>> },
                 transport |-> FALSE]
    /\ tokFile = [token |-> <<"A">>, mtime |-> 1]
    /\ writes = 0

EnvStall ==
    /\ csv = { <<"reports", "g1">>, <<"reports", "g2">> }
    /\ max_conc = 1
    /\ needs_auth = FALSE
    /\ outage = {}
    /\ server = [statuses |-> { 200, 401 },
                 bodies |-> { [kind |-> "dict", reportUrl |-> Some(PdfUrl)] },
                 contents |-> { <<7, 7>> },
                 transport |-> FALSE]
    /\ tokFile = [token |-> <<"A">>, mtime |-> 1]
    /\ writes = 0

Init ==
    /\ jobs = {}
    /\ files = {}
    /\ errors = {}
    /\ cache = [token |-> None, mtime |-> 0]
    /\ pool = "loop"
    /\ tasks = <<>>
    /\ EnvPool \/ EnvFetch \/ EnvAuth \/ EnvRetry \/ EnvStall
    /\ sem = max_conc

\* ====================== CSV Watcher ======================

\* one row of seed_jobs_from_csv
SeedJob(url) ==
    /\ pool \in { "loop", "gather" }
    /\ url \in csv
    /\ url # <<>>
    /\ extract_guid_from_url(url) # None
    /\ jobs' = db_upsert_job(jobs, extract_guid_from_url(url)[1], url)
    /\ UNCHANGED <<files, errors, tokFile, cache, pool, tasks, sem, writes, env>>

\* ====================== credential source ======================

\* save_token of the credential source, or the file being emptied or touched:
\* the content changes, the modification time stays or advances
WriteToken(tok, mtime) ==
    /\ writes > 0
    /\ mtime \in { tokFile.mtime, tokFile.mtime + 1 }
    /\ mtime >= 1
    /\ tokFile' = [token |-> tok, mtime |-> mtime]
    /\ writes' = writes - 1
    /\ UNCHANGED <<jobs, files, errors, cache, pool, tasks, sem, env>>

\* ====================== Worker ======================

\* a run_one task, made from a row (g, u, _t) of the batch, and the locals of
\* process_one, fetch_metadata and fetch_report: r_meta / r_rep the status of
\* the last response the stage received, body the text of the last metadata
\* response, status_meta / status_rep and content what the stage returned to
\* process_one
NewTask(b) ==
    [guid |-> b.guid, url |-> b.url, tries |-> b.tries,
     pc |-> "created", i |-> 0, backoff |-> 0,
     token |-> None, token_used |-> None,
     r_meta |-> None, body |-> None, status_meta |-> None, report_url |-> None,
     r_rep |-> None, status_rep |-> None, content |-> None]

\* a task whose run_one has returned, raised or been cancelled, with what
\* process_one held when it ended
Ended(t, pc) ==
    [t EXCEPT !.pc = pc, !.i = 0, !.backoff = 0, !.token = None, !.token_used = None]

MetaPcs == { "meta_tok", "meta_req", "meta_rot", "meta_sleep_auth", "meta_sleep" }

ReportPcs == { "rep_tok", "rep_req", "rep_rot", "rep_sleep_auth", "rep_sleep" }

\* the task is inside "async with sem"
InGate(t) == t.pc \in MetaPcs \cup ReportPcs

\* worker_pool: batch = db_next_batch(...); tasks = [create_task(run_one(g, u)) ...]
ClaimBatch ==
    /\ pool = "loop"
    /\ LET batch == db_next_batch(jobs, max_conc * 4)
       IN  /\ Len(batch) > 0
           /\ tasks' = [k \in 1..Len(batch) |-> NewTask(batch[k])]
    /\ pool' = "gather"
    /\ UNCHANGED <<jobs, files, errors, tokFile, writes, cache, sem, env>>

\* ---------------- process_one: the three ways it records a result ----------------

\* db_mark(con, guid, status="failed", http_status_meta=status_meta)
MarkMetaFailed(J, guid, status_meta) ==
    db_mark(J, guid, [status |-> "failed", http_status_meta |-> status_meta])

\* db_mark(con, guid, status="failed")
MarkMissingUrl(J, guid) ==
    db_mark(J, guid, [status |-> "failed"])

\* db_mark(con, guid, status="failed", http_status_report=status_rep)
MarkReportFailed(J, guid, status_rep) ==
    db_mark(J, guid, [status |-> "failed", http_status_report |-> status_rep])

\* guess_ext of every report URL a metadata document can carry, computed once
ExtOfReportUrl == [u \in ReportUrls |-> guess_ext(u)]

\* root / "reports" / f"{guid}{guess_ext(report_url)}"
ReportPath(guid, report_url) == <<guid>> \o ExtOfReportUrl[report_url]

\* mutant: size_bytes=len(str(path))
MarkDoneLenOfPath(J, guid, path, content) ==
    db_mark(J, guid, [status |-> "done", path |-> Some(path),
                      size_bytes |-> Some(Len(path))])

\* db_mark(con, guid, status="done", path=str(path), size_bytes=len(content))
MarkDone(J, guid, path, content) ==
    db_mark(J, guid, [status |-> "done", path |-> Some(path),
                      size_bytes |-> Some(Len(content))])

\* open(path, "wb").write(content)
WriteFile(F, path, content) == { f \in F : f[1] # path } \cup { <<path, content>> }

\* save_error_json: errors/<guid>.json is written anew; body is body[:1000]
\* of a text shorter than that, None when no body is passed
save_error_json(E, guid, message, step, status, body) ==
    { e \in E : e.guid # guid }
    \cup { [guid |-> guid, error |-> message, step |-> step,
            status_code |-> status, body |-> body] }

\* save_error_json(root, guid, "Metadata fetch failed", "metadata", status_meta, body_meta)
SaveMetaError(E, guid, status_meta, body_meta) ==
    save_error_json(E, guid, "Metadata fetch failed", "metadata", status_meta, body_meta)

\* save_error_json(root, guid, "Missing reportUrl", "metadata")
SaveMissingUrlError(E, guid) ==
    save_error_json(E, guid, "Missing reportUrl", "metadata", None, None)

\* save_error_json(root, guid, "Download failed", "report")
SaveReportError(E, guid) ==
    save_error_json(E, guid, "Download failed", "report", None, None)

\* process_one returns after recording a result; run_one leaves the semaphore
Return(k, t, J, E) ==
    /\ jobs' = J
    /\ errors' = E
    /\ tasks' = [tasks EXCEPT ![k] = Ended(t, "done")]
    /\ sem' = sem + 1

\* ---------------- fetch_metadata ----------------

\* top of one round of fetch_metadata's for loop, or the return after the last
MetaRound(k, t, c) ==
    IF t.i >= MAX_RETRIES
    THEN \* return None, None, None; process_one: status_meta != 200
         /\ Return(k, [t EXCEPT !.status_meta = None],
                   MarkMetaFailed(jobs, t.guid, None),
                   SaveMetaError(errors, t.guid, None, None))
         /\ cache' = c
         /\ UNCHANGED files
    ELSE LET c2 == Get(tokFile, c)
         IN  /\ cache' = c2
             /\ tasks' = [tasks EXCEPT ![k] =
                    [t EXCEPT !.token = c2.token,
                              !.pc = IF c2.token = None THEN "meta_tok" ELSE "meta_req"]]
             /\ UNCHANGED <<jobs, files, errors, sem>>

\* mutant: run_one without "async with sem"
RunOneNoGate(k) ==
    /\ pool = "gather"
    /\ tasks[k].pc = "created"
    /\ \A j \in 1..(k - 1) : tasks[j].pc # "created"
    /\ LET c1 == Get(tokFile, cache)
           c2 == Get(tokFile, c1)
           t  == [tasks[k] EXCEPT !.backoff = BACKOFF_BASE_S, !.token_used = c1.token,
                                  !.token = c2.token,
                                  !.pc = IF c2.token = None THEN "meta_tok" ELSE "meta_req"]
       IN  /\ jobs' = db_inc_try(jobs, t.guid)
           /\ cache' = c2
           /\ tasks' = [tasks EXCEPT ![k] = t]
    /\ sem' = sem - 1
    /\ UNCHANGED <<files, errors, tokFile, writes, pool, env>>

\* run_one: the task enters the semaphore (tasks enter in batch order),
\* db_inc_try, then process_one up to the first await of fetch_metadata
RunOne(k) ==
    /\ pool = "gather"
    /\ tasks[k].pc = "created"
    /\ \A j \in 1..(k - 1) : tasks[j].pc # "created"
    /\ sem > 0
    /\ LET c1 == Get(tokFile, cache)
           c2 == Get(tokFile, c1)
           t  == [tasks[k] EXCEPT !.backoff = BACKOFF_BASE_S, !.token_used = c1.token,
                                  !.token = c2.token,
                                  !.pc = IF c2.token = None THEN "meta_tok" ELSE "meta_req"]
       IN  /\ jobs' = db_inc_try(jobs, t.guid)
           /\ cache' = c2
           /\ tasks' = [tasks EXCEPT ![k] = t]
    /\ sem' = sem - 1
    /\ UNCHANGED <<files, errors, tokFile, writes, pool, env>>

\* ---------------- fetch_report ----------------

\* top of one round of fetch_report's for loop, or the return after the last
ReportRound(k, t, c) ==
    IF t.i >= MAX_RETRIES
    THEN \* return None, None; process_one: status_rep != 200
         /\ Return(k, [t EXCEPT !.status_rep = None],
                   MarkReportFailed(jobs, t.guid, None),
                   SaveReportError(errors, t.guid))
         /\ cache' = c
         /\ UNCHANGED files
    ELSE LET c2 == IF needs_auth THEN Get(tokFile, c) ELSE c
             token == IF needs_auth THEN c2.token ELSE None
         IN  /\ cache' = c2
             /\ tasks' = [tasks EXCEPT ![k] =
                    [t EXCEPT !.token = token,
                              !.pc = IF needs_auth /\ token = None THEN "rep_tok" ELSE "rep_req"]]
             /\ UNCHANGED <<jobs, files, errors, sem>>

\* process_one after fetch_metadata returned (r.status, json.loads(body), body)
\* or (r.status, None, body); t carries the body
AfterMetadata(k, t, status) ==
    LET body == t.body[1]
        t2   == [t EXCEPT !.status_meta = Some(status)]
    IN  IF status # 200 \/ body.kind = "falsy"
        THEN /\ Return(k, t2, MarkMetaFailed(jobs, t.guid, Some(status)),
                       SaveMetaError(errors, t.guid, Some(status), t.body))
             /\ UNCHANGED <<files, cache>>
        ELSE IF body.kind = "nondict"
        THEN \* meta.get raises AttributeError: run_one leaves the semaphore and raises
             /\ tasks' = [tasks EXCEPT ![k] = Ended(t2, "raised")]
             /\ sem' = sem + 1
             /\ UNCHANGED <<jobs, files, errors, cache>>
        ELSE IF body.reportUrl = None
        THEN /\ Return(k, t2, MarkMissingUrl(jobs, t.guid),
                       SaveMissingUrlError(errors, t.guid))
             /\ UNCHANGED <<files, cache>>
        ELSE \* fetch_report starts: backoff, token_used = token_mgr.get(), first round
             LET c1 == Get(tokFile, cache)
             IN  ReportRound(k, [t2 EXCEPT !.report_url = body.reportUrl,
                                           !.i = 0, !.backoff = BACKOFF_BASE_S,
                                           !.token_used = c1.token], c1)

\* the metadata endpoint answers the request of task k
MetaResponse(k, status, body) ==
    /\ pool = "gather"
    /\ tasks[k].pc = "meta_req"
    /\ status \in server.statuses
    /\ body \in server.bodies
    /\ tasks[k].guid \in outage => status = 500
    /\ LET t == [tasks[k] EXCEPT !.r_meta = Some(status), !.body = Some(body)]
       IN  IF status \in AUTH_STATUSES
           THEN /\ tasks' = [tasks EXCEPT ![k] =
                       [t EXCEPT !.token_used = t.token, !.pc = "meta_rot"]]
                /\ UNCHANGED <<jobs, files, errors, cache, sem>>
           ELSE IF status \in RETRY_STATUSES \/ (status = 200 /\ body.kind = "garbage")
           THEN \* the status is retried; json.loads raises inside the try block
                /\ tasks' = [tasks EXCEPT ![k] = [t EXCEPT !.pc = "meta_sleep"]]
                /\ UNCHANGED <<jobs, files, errors, cache, sem>>
           ELSE AfterMetadata(k, t, status)
    /\ UNCHANGED <<tokFile, writes, pool, env>>

\* session.get raises (connection error, timeout): except Exception
MetaException(k) ==
    /\ pool = "gather"
    /\ tasks[k].pc = "meta_req"
    /\ server.transport
    /\ tasks[k].guid \notin outage
    /\ tasks' = [tasks EXCEPT ![k] = [tasks[k] EXCEPT !.pc = "meta_sleep"]]
    /\ UNCHANGED <<jobs, files, errors, tokFile, writes, cache, pool, sem, env>>

\* mutant: process_one without the test of status_rep
AfterReportAnyStatus(k, t, status, content) ==
    LET t2   == [t EXCEPT !.status_rep = Some(status), !.content = Some(content)]
        path == ReportPath(t.guid, t.report_url[1])
    IN  /\ files' = WriteFile(files, path, content)
        /\ Return(k, t2, MarkDone(jobs, t.guid, path, content), errors)

\* process_one after fetch_report returned (r.status, content)
AfterReport(k, t, status, content) ==
    LET t2 == [t EXCEPT !.status_rep = Some(status), !.content = Some(content)]
    IN  IF status # 200
        THEN /\ Return(k, t2, MarkReportFailed(jobs, t.guid, Some(status)),
                       SaveReportError(errors, t.guid))
             /\ UNCHANGED files
        ELSE LET path == ReportPath(t.guid, t.report_url[1])
             IN  /\ files' = WriteFile(files, path, content)
                 /\ Return(k, t2, MarkDone(jobs, t.guid, path, content), errors)

\* the content endpoint answers the request of task k
ReportResponse(k, status, content) ==
    /\ pool = "gather"
    /\ tasks[k].pc = "rep_req"
    /\ status \in server.statuses
    /\ content \in server.contents
    /\ LET t == [tasks[k] EXCEPT !.r_rep = Some(status)]
       IN  IF status \in AUTH_STATUSES /\ needs_auth
           THEN \* token_used = headers.get("Authorization")
                /\ tasks' = [tasks EXCEPT ![k] =
                       [t EXCEPT !.token_used = Bearer(t.token), !.pc = "rep_rot"]]
                /\ UNCHANGED <<jobs, files, errors, sem>>
           ELSE IF status \in RETRY_STATUSES
           THEN /\ tasks' = [tasks EXCEPT ![k] = [t EXCEPT !.pc = "rep_sleep"]]
                /\ UNCHANGED <<jobs, files, errors, sem>>
           ELSE AfterReport(k, t, status, content)
    /\ UNCHANGED <<tokFile, writes, cache, pool, env>>

\* session.get raises (connection error, timeout): except Exception
ReportException(k) ==
    /\ pool = "gather"
    /\ tasks[k].pc = "rep_req"
    /\ server.transport
    /\ tasks' = [tasks EXCEPT ![k] = [tasks[k] EXCEPT !.pc = "rep_sleep"]]
    /\ UNCHANGED <<jobs, files, errors, tokFile, writes, cache, pool, sem, env>>

\* ---------------- waits ----------------

\* one round of wait_for_update(token_used) after its poll sleep: tok = self.get();
\* on a token that is set and differs from old_token the wait returns, and the
\* caller goes on to its request (no token yet) or to the backoff sleep that
\* follows the wait (401/403)
WaitForUpdate(k) ==
    /\ pool = "gather"
    /\ tasks[k].pc \in { "meta_tok", "meta_rot", "rep_tok", "rep_rot" }
    /\ LET t == tasks[k]
           c == Get(tokFile, cache)
       IN  /\ cache' = c
           /\ tasks' = [tasks EXCEPT ![k] =
                  IF ~Updated(c.token, t.token_used) THEN t
                  ELSE IF t.pc = "meta_tok" THEN [t EXCEPT !.token = c.token, !.pc = "meta_req"]
                  ELSE IF t.pc = "rep_tok" THEN [t EXCEPT !.token = c.token, !.pc = "rep_req"]
                  ELSE IF t.pc = "meta_rot" THEN [t EXCEPT !.pc = "meta_sleep_auth"]
                  ELSE [t EXCEPT !.pc = "rep_sleep_auth"]]
    /\ UNCHANGED <<jobs, files, errors, tokFile, writes, pool, sem, env>>

\* mutant: backoff += BACKOFF_BASE_S
SleepDoneLinear(k) ==
    /\ pool = "gather"
    /\ tasks[k].pc \in { "meta_sleep_auth", "meta_sleep", "rep_sleep_auth", "rep_sleep" }
    /\ LET t == [tasks[k] EXCEPT !.i = @ + 1, !.backoff = @ + BACKOFF_BASE_S]
       IN  IF tasks[k].pc \in MetaPcs
           THEN MetaRound(k, t, cache)
           ELSE ReportRound(k, t, cache)
    /\ UNCHANGED <<tokFile, writes, pool, env>>

\* asyncio.sleep(backoff) is over: backoff *= 2 and the next round of the loop
SleepDone(k) ==
    /\ pool = "gather"
    /\ tasks[k].pc \in { "meta_sleep_auth", "meta_sleep", "rep_sleep_auth", "rep_sleep" }
    /\ LET t == [tasks[k] EXCEPT !.i = @ + 1, !.backoff = @ * 2]
       IN  IF tasks[k].pc \in MetaPcs
           THEN MetaRound(k, t, cache)
           ELSE ReportRound(k, t, cache)
    /\ UNCHANGED <<tokFile, writes, pool, env>>

\* ---------------- worker_pool: asyncio.gather(*tasks) ----------------

\* mutant: asyncio.wait(tasks, return_when=FIRST_COMPLETED) in place of gather
GatherFirstCompleted ==
    /\ pool = "gather"
    /\ \E k \in 1..Len(tasks) : tasks[k].pc = "done"
    /\ pool' = "loop"
    /\ tasks' = <<>>
    /\ UNCHANGED <<jobs, files, errors, tokFile, writes, cache, sem, env>>

\* every task returned: gather returns, db_counts is logged, the loop goes on
GatherDone ==
    /\ pool = "gather"
    /\ \A k \in 1..Len(tasks) : tasks[k].pc = "done"
    /\ pool' = "loop"
    /\ tasks' = <<>>
    /\ UNCHANGED <<jobs, files, errors, tokFile, writes, cache, sem, env>>

\* a task raised: gather re-raises in worker_pool, which leaves its loop;
\* asyncio.run cancels the tasks still pending and main() ends with the exception
GatherRaise ==
    /\ pool = "gather"
    /\ \E k \in 1..Len(tasks) : tasks[k].pc = "raised"
    /\ pool' = "crashed"
    /\ tasks' = [k \in 1..Len(tasks) |->
           IF tasks[k].pc \in { "done", "raised" } THEN tasks[k]
           ELSE Ended(NewTask(tasks[k]), "cancelled")]
    /\ sem' = sem + Cardinality({ k \in 1..Len(tasks) : InGate(tasks[k]) })
    /\ UNCHANGED <<jobs, files, errors, tokFile, writes, cache, env>>

\* ====================== Main ======================

\* KeyboardInterrupt while asyncio.run is running: worker_pool, its gather and
\* every task are cancelled where they stand, main() logs the summary and the
\* process ends with its memory (tasks, semaphore, token cache, watcher thread)
Interrupt ==
    /\ pool \in { "loop", "gather" }
    /\ pool' = "exited"
    /\ tasks' = <<>>
    /\ sem' = max_conc
    /\ cache' = [token |-> None, mtime |-> 0]
    /\ UNCHANGED <<jobs, files, errors, tokFile, writes, env>>

\* main() is started again on the ledger, the reports and the token file the
\* last process left: db_init keeps the existing table, the token manager and
\* the semaphore are new
Restart ==
    /\ pool \in { "crashed", "exited" }
    /\ pool' = "loop"
    /\ tasks' = <<>>
    /\ sem' = max_conc
    /\ cache' = [token |-> None, mtime |-> 0]
    /\ UNCHANGED <<jobs, files, errors, tokFile, writes, env>>

\* ====================== Spec ======================

Next ==
    \/ \E u \in Urls : SeedJob(u)
    \/ \E tok \in Tokens \cup { None }, m \in 1..(MaxWrites + 1) : WriteToken(tok, m)
    \/ ClaimBatch
    \/ \E k \in 1..Len(tasks) : RunOne(k)
    \/ \E k \in 1..Len(tasks), st \in Statuses, b \in Bodies : MetaResponse(k, st, b)
    \/ \E k \in 1..Len(tasks) : MetaException(k)
    \/ \E k \in 1..Len(tasks), st \in Statuses, c \in Contents : ReportResponse(k, st, c)
    \/ \E k \in 1..Len(tasks) : ReportException(k)
    \/ \E k \in 1..Len(tasks) : WaitForUpdate(k)
    \/ \E k \in 1..Len(tasks) : SleepDone(k)
    \/ GatherDone
    \/ GatherRaise
    \/ Interrupt
    \/ Restart

Spec == Init /\ [][Next]_vars

\* ---------------- the process while it keeps running ----------------

\* a step of one of the run_one tasks of the batch
TaskStep ==
    \E k \in 1..Len(tasks) :
        \/ RunOne(k)
        \/ \E st \in Statuses, b \in { x \in Bodies : x.kind # "nondict" } :
              MetaResponse(k, st, b)
        \/ MetaException(k)
        \/ \E st \in Statuses, c \in Contents : ReportResponse(k, st, c)
        \/ ReportException(k)
        \/ WaitForUpdate(k)
        \/ SleepDone(k)

\* the steps of a process that is not interrupted and in which no call
\* raises: no metadata body makes meta.get raise
Running ==
    \/ \E u \in Urls : SeedJob(u)
    \/ \E tok \in Tokens \cup { None }, m \in 1..(MaxWrites + 1) : WriteToken(tok, m)
    \/ ClaimBatch
    \/ TaskStep
    \/ GatherDone

\* the asyncio event loop runs every callback that is ready, a request gets
\* its response or its exception, and a sleep ends: worker_pool and the
\* tasks take the steps they can take.  The CSV watcher and the credential
\* source owe nothing.
Fairness ==
    /\ WF_vars(ClaimBatch)
    /\ WF_vars(TaskStep)
    /\ WF_vars(GatherDone)

\* the runs followed to their end: all environments but EnvRetry, whose
\* retries EnvFetch has as well
LiveInit == Init /\ ~EnvRetry

LiveSpec == LiveInit /\ [][Running]_vars /\ Fairness

\* ====================== properties ======================

Row(guid) == CHOOSE r \in jobs : r.guid = guid

TaskIds == 1..Len(tasks)

InFlight == { k \in TaskIds : InGate(tasks[k]) }

\* the batch a ClaimBatch step hands to the tasks
Claimed == IF pool = "loop" /\ pool' = "gather"
           THEN { tasks'[k].guid : k \in 1..Len(tasks') } ELSE {}

\* C1: every job's attempt count (tries) never decreases, and a job whose
\* attempt count has reached MAX_RETRIES is in no batch a later claim returns.
C1_AttemptsMonotoneAndCapped ==
    [][ /\ \A r \in jobs : \E r2 \in jobs' : r2.guid = r.guid /\ r2.tries >= r.tries
        /\ \A r \in jobs : r.tries >= MAX_RETRIES => r.guid \notin Claimed ]_vars

\* C1 witness: a batch has been claimed while a failed job sits at the cap, and
\* the job is not in it
C1_Witness ==
    /\ pool = "gather"
    /\ \E k \in TaskIds : tasks[k].pc = "created"
    /\ \E r \in jobs : /\ r.status = "failed"
                       /\ r.tries = MAX_RETRIES
                       /\ \A k \in TaskIds : tasks[k].guid # r.guid

\* C2 (as claimed): an attempt of a job whose every metadata request was
\* answered 500, ended after five such responses, leaves the job failed with
\* attempts = 5 and 500 recorded as its metadata-stage HTTP status.
C2_Original ==
    \A k \in TaskIds :
        LET t == tasks[k]
            r == Row(t.guid)
        IN  (t.guid \in outage /\ t.pc = "done" /\ t.r_meta = Some(500))
            => /\ r.status = "failed"
               /\ r.tries = MAX_RETRIES
               /\ r.http_status_meta = Some(500)

\* C3: a step that makes a job done is the end of an attempt of that job in
\* which fetch_metadata returned 200 with a reportUrl and fetch_report
\* returned 200.
C3_DoneOnlyAfterBothStages ==
    [][ \A r2 \in jobs' :
          (r2.status = "done" /\ \A r \in jobs : r.guid = r2.guid => r.status # "done")
          => \E k \in TaskIds :
                /\ tasks[k].guid = r2.guid
                /\ InGate(tasks[k])
                /\ tasks'[k].pc = "done"
                /\ tasks'[k].r_meta = Some(200)
                /\ tasks'[k].status_meta = Some(200)
                /\ tasks'[k].body # None
                /\ tasks'[k].body[1].reportUrl # None
                /\ tasks'[k].report_url = tasks'[k].body[1].reportUrl
                /\ tasks'[k].r_rep = Some(200)
                /\ tasks'[k].status_rep = Some(200) ]_vars

\* C3 witness: a job is done after an attempt that followed a failed one
C3_Witness ==
    \E k \in TaskIds :
        /\ tasks[k].pc = "done"
        /\ tasks[k].status_rep = Some(200)
        /\ Row(tasks[k].guid).status = "done"
        /\ Row(tasks[k].guid).tries > 1

\* C4 (as claimed): after a 401/403 the wait for rotation returns only a
\* credential different from the one sent on the request that got the 401/403,
\* and the next request of the stage carries a credential different from it;
\* in fetch_metadata and in fetch_report with the credential attached.
C4_Original ==
    [][ \A k \in TaskIds :
          LET t == tasks[k]
              n == tasks'[k]
          IN  Len(tasks') = Len(tasks)
              => /\ (t.pc = "meta_rot" /\ n.pc = "meta_sleep_auth") => cache'.token # t.token
                 /\ (t.pc = "rep_rot" /\ n.pc = "rep_sleep_auth") => cache'.token # t.token
                 /\ (t.pc = "meta_sleep_auth" /\ n.pc = "meta_req") => n.token # t.token
                 /\ (t.pc = "rep_sleep_auth" /\ n.pc = "rep_req") => n.token # t.token ]_vars

\* C5 (as claimed): whatever happens to one job, the dispatch loop is not
\* aborted and no job of the batch is kept from recording its result.
C5_Original ==
    /\ pool # "crashed"
    /\ \A k \in TaskIds : tasks[k].pc # "cancelled"

\* C6: the ledger never holds two rows for one id, and db_upsert_job for an
\* id that is present, under any URL with that id, leaves the table as it is.
C6_EnqueueIdempotent ==
    /\ \A r1, r2 \in jobs : r1.guid = r2.guid => r1 = r2
    /\ \A u \in Urls :
          LET g == extract_guid_from_url(u)
          IN  (g # None /\ \E r \in jobs : r.guid = g[1])
              => db_upsert_job(jobs, g[1], u) = jobs

\* C6 witness: the CSV lists a second URL for the id of a job that has been
\* attempted and is no longer pending
C6_Witness ==
    \E r \in jobs, u \in csv :
        /\ extract_guid_from_url(u) = Some(r.guid)
        /\ u # r.url
        /\ r.tries > 0
        /\ r.status # "pending"

\* C7: the size_bytes of a done job is the length of the file at its path.
C7_SizeIsPayloadLength ==
    \A r \in jobs :
        r.status = "done"
        => /\ r.path # None
           /\ \E f \in files : f[1] = r.path[1] /\ r.size_bytes = Some(Len(f[2]))

\* C7 witness: a done job whose payload was two bytes long
C7_Witness ==
    \E r \in jobs : r.status = "done" /\ r.size_bytes = Some(2)

LacksReportUrl(body) == body.kind # "garbage" /\ body.reportUrl = None

\* C8 (as claimed): an attempt whose metadata response is 200 with a body
\* that lacks reportUrl makes no content request and leaves the job failed.
C8_Original ==
    \A k \in TaskIds :
        LET t == tasks[k]
        IN  (t.r_meta = Some(200) /\ t.body # None /\ LacksReportUrl(t.body[1]))
            => /\ t.pc \notin ReportPcs
               /\ t.r_rep = None
               /\ Row(t.guid).status = "failed"

\* C9 (as claimed): after a 200 metadata response whose body is unparseable
\* or lacks reportUrl the metadata stage is over: no backoff sleep and no
\* further metadata request in that attempt.
C9_Original ==
    \A k \in TaskIds :
        LET t == tasks[k]
        IN  (t.r_meta = Some(200) /\ t.body # None
             /\ (t.body[1].kind = "garbage" \/ LacksReportUrl(t.body[1])))
            => t.pc \notin MetaPcs

\* C10: the tasks between db_inc_try and the end of process_one are never
\* more than max_conc.
C10_InFlightCap == Cardinality(InFlight) <= max_conc

\* C10 witness: max_conc attempts are in flight and a claimed job waits
C10_Witness ==
    /\ Cardinality(InFlight) = max_conc
    /\ \E k \in TaskIds : tasks[k].pc = "created"

\* C11: asyncio.gather returns to the dispatch loop only when every task of
\* the batch has recorded its result, a batch is claimed only when no task of
\* an earlier batch is left, and no two tasks are ever for the same job.
C11_BatchBarrier ==
    [][ /\ (pool = "gather" /\ pool' = "loop")
            => \A k \in TaskIds : tasks[k].pc = "done"
        /\ Claimed # {} => InFlight = {} /\ tasks = <<>>
        /\ \A j, k \in TaskIds : tasks[j].guid = tasks[k].guid => j = k ]_vars

\* C11 witness: one job of the batch has failed and could be claimed again
\* while another job of the same batch is still in flight
C11_Witness ==
    /\ pool = "gather"
    /\ \E j, k \in TaskIds :
          /\ tasks[j].pc = "done"
          /\ Row(tasks[j].guid).status = "failed"
          /\ Row(tasks[j].guid).tries < MAX_RETRIES
          /\ InGate(tasks[k])

\* C12: for every limit n, db_next_batch returns min(n, number of claimable
\* jobs) distinct jobs, each pending or failed with tries below MAX_RETRIES,
\* in ascending order of updated_at, and no claimable job left out is older
\* than a job returned.
C12_OldestFirst ==
    \A n \in 1..(MaxConc * 4) :
        LET batch     == db_next_batch(jobs, n)
            claimable == { r \in jobs : /\ r.status \in { "pending", "failed" }
                                        /\ r.tries < MAX_RETRIES }
            returned  == { batch[k].guid : k \in 1..Len(batch) }
            at(g)     == (CHOOSE r \in jobs : r.guid = g).updated_at
        IN  /\ Len(batch) = IF Cardinality(claimable) < n
                            THEN Cardinality(claimable) ELSE n
            /\ Cardinality(returned) = Len(batch)
            /\ \A k \in 1..Len(batch) :
                  \E r \in claimable : /\ r.guid = batch[k].guid
                                       /\ r.url = batch[k].url
                                       /\ r.tries = batch[k].tries
            /\ \A j, k \in 1..Len(batch) :
                  j < k => at(batch[j].guid) <= at(batch[k].guid)
            /\ \A r \in claimable :
                  r.guid \notin returned
                  => \A k \in 1..Len(batch) : at(batch[k].guid) <= r.updated_at

\* C12 witness: two jobs are claimable, more than a limit of one, and the
\* job enqueued first is no longer the oldest: the other one is returned
C12_Witness ==
    /\ pool = "loop"
    /\ \E r1, r2 \in jobs :
          /\ r1.guid = "g1" /\ r2.guid = "g2"
          /\ r1.status = "failed" /\ r1.tries < MAX_RETRIES
          /\ r2.status = "failed" /\ r2.tries < MAX_RETRIES
          /\ r2.updated_at < r1.updated_at
          /\ db_next_batch(jobs, 1)[1].guid = "g2"

\* C13 (as claimed): after an attempt whose metadata response was 200 with a
\* reportUrl ending in an extension .E (or in none) and whose content response
\* was 200 with N bytes, the row is done, its path ends in the id followed by
\* .E as the reportUrl spells it (.json when there is none), and its size is N.
C13_Original ==
    \A k \in TaskIds :
        LET t == tasks[k]
            r == Row(t.guid)
        IN  (t.pc = "done" /\ t.status_meta = Some(200) /\ t.report_url # None
             /\ t.status_rep = Some(200))
            => /\ r.status = "done"
               /\ r.path = Some(IF t.report_url[1] = <<"x", ".", "P", "d", "f">>
                                THEN <<t.guid, ".", "P", "d", "f">>
                                ELSE <<t.guid, ".", "j", "s", "o", "n">>)
               /\ r.size_bytes = Some(Len(t.content[1]))

\* C13 (amended): as above, with the extension in lower case: the path ends in
\* the id followed by .E lower-cased (.json when the reportUrl has none).
C13_EndToEndLowerCase ==
    \A k \in TaskIds :
        LET t == tasks[k]
            r == Row(t.guid)
        IN  (t.pc = "done" /\ t.status_meta = Some(200) /\ t.report_url # None
             /\ t.status_rep = Some(200))
            => /\ r.status = "done"
               /\ r.path = Some(IF t.report_url[1] = <<"x", ".", "P", "d", "f">>
                                THEN <<t.guid, ".", "p", "d", "f">>
                                ELSE <<t.guid, ".", "j", "s", "o", "n">>)
               /\ r.size_bytes = Some(Len(t.content[1]))

\* C13 witness: a first attempt ended with 200, x.Pdf, 200 and two bytes
C13_Witness ==
    \E k \in TaskIds :
        /\ tasks[k].pc = "done"
        /\ tasks[k].tries = 0
        /\ tasks[k].status_meta = Some(200)
        /\ tasks[k].report_url = Some(<<"x", ".", "P", "d", "f">>)
        /\ tasks[k].status_rep = Some(200)
        /\ tasks[k].content = Some(<<7, 7>>)
        /\ Row(tasks[k].guid).path = Some(<<tasks[k].guid, ".", "p", "d", "f">>)

\* C14 (as claimed): a response with a status that is neither 200 nor one of
\* 429, 500, 502, 503, 504, 401, 403, received before the last round of a
\* stage, does not end the stage: the stage goes to its backoff sleep.
C14_Original ==
    [][ \A k \in TaskIds :
          Len(tasks') = Len(tasks)
          => LET t == tasks[k]
                 n == tasks'[k]
                 other(st) == /\ st # None
                              /\ st[1] \notin { 200 } \cup RETRY_STATUSES \cup AUTH_STATUSES
             IN  /\ (t.pc = "meta_req" /\ n.pc \notin { "meta_req", "cancelled" }
                      /\ other(n.r_meta) /\ t.i < MAX_RETRIES - 1)
                     => n.pc = "meta_sleep"
                 /\ (t.pc = "rep_req" /\ n.pc \notin { "rep_req", "cancelled" }
                      /\ other(n.r_rep) /\ t.i < MAX_RETRIES - 1)
                     => n.pc = "rep_sleep" ]_vars

\* C15 (as claimed): after an attempt that left the job failed, the row holds
\* the status of the last metadata response of the attempt as
\* http_status_meta when the metadata stage failed (fetch_report never
\* started), and the status of the last content response as
\* http_status_report when the content stage failed.
C15_Original ==
    \A k \in TaskIds :
        LET t == tasks[k]
            r == Row(t.guid)
        IN  (t.pc = "done" /\ r.status = "failed")
            => IF t.report_url = None
               THEN r.http_status_meta = t.r_meta
               ELSE r.http_status_report = t.r_rep

\* C16 (as claimed): a job that is not being attempted, is not done and has
\* tries at MAX_RETRIES is failed, also after the process ended and was
\* started again.
C16_Original ==
    \A r \in jobs :
        (/\ r.tries >= MAX_RETRIES
         /\ r.status # "done"
         /\ \A k \in TaskIds : tasks[k].guid = r.guid => ~InGate(tasks[k]))
        => r.status = "failed"

\* C17 (as claimed): when the process ends while attempts are in flight, the
\* tries the ledger keeps for a job in flight is the tries it had when the
\* job was claimed: the attempt that recorded no result is not counted.
C17_Original ==
    [][ (pool = "gather" /\ pool' \in { "exited", "crashed" })
        => \A k \in TaskIds :
              InGate(tasks[k])
              => \A r \in jobs' : r.guid = tasks[k].guid => r.tries = tasks[k].tries ]_vars

\* C18: no step changes the status, tries, path or size_bytes of a job that
\* is done, no claim returns it, and db_next_batch does not return it.
C18_DoneIsTerminal ==
    [][ \A r \in jobs :
          r.status = "done"
          => /\ \E r2 \in jobs' : /\ r2.guid = r.guid
                                   /\ r2.status = "done"
                                   /\ r2.tries = r.tries
                                   /\ r2.path = r.path
                                   /\ r2.size_bytes = r.size_bytes
             /\ r.guid \notin Claimed
             /\ LET batch == db_next_batch(jobs, max_conc * 4)
                IN  \A k \in 1..Len(batch) : batch[k].guid # r.guid ]_vars

\* C18 witness: a job became done with attempts to spare, and a later batch
\* attempts another job while the CSV still lists the done job
C18_Witness ==
    /\ pool = "gather"
    /\ \E r \in jobs, k \in TaskIds :
          /\ r.status = "done"
          /\ r.tries < MAX_RETRIES
          /\ r.url \in csv
          /\ tasks[k].guid # r.guid
          /\ InGate(tasks[k])
          /\ Len(tasks) = 1
          /\ r.updated_at < Row(tasks[k].guid).updated_at

\* C19: a task inside a stage is in one of the MAX_RETRIES rounds of its loop
\* (one request per round), and the delay of the sleep that follows the
\* request of round i (0, 1, 2, ...) is BACKOFF_BASE_S * 2^i, in fetch_metadata
\* and in fetch_report, in every attempt.
C19_BackoffDoubles ==
    \A k \in TaskIds :
        LET t == tasks[k]
        IN  InGate(t) => /\ t.i < MAX_RETRIES
                         /\ t.backoff = BACKOFF_BASE_S * 2^(t.i)

\* C19 witness: in a second attempt of a job, after the metadata stage slept
\* and returned, the fifth content request was answered 500 and the content
\* stage sleeps 16 times the base
C19_Witness ==
    \E k \in TaskIds :
        /\ tasks[k].pc = "rep_sleep"
        /\ tasks[k].tries >= 1
        /\ tasks[k].i = MAX_RETRIES - 1
        /\ tasks[k].r_rep = Some(500)
        /\ tasks[k].backoff = 16 * BACKOFF_BASE_S

\* C20 (as claimed): a task that starts its attempt has passed the gate,
\* increments tries in that step and has sent no request yet; a task that
\* leaves the gate has ended its fetch and recorded one result in that step
\* (its row is failed or done and the newest of the ledger).
C20_Original ==
    [][ \A k \in TaskIds :
          Len(tasks') = Len(tasks)
          => LET t  == tasks[k]
                 n  == tasks'[k]
                 r  == CHOOSE x \in jobs : x.guid = t.guid
                 r2 == CHOOSE x \in jobs' : x.guid = t.guid
             IN  /\ (t.pc = "created" /\ InGate(n))
                     => /\ sem > 0
                        /\ r2.tries = r.tries + 1
                        /\ n.r_meta = None /\ n.r_rep = None
                 /\ (InGate(t) /\ ~InGate(n))
                     => /\ n.pc = "done"
                        /\ r2.status \in { "failed", "done" }
                        /\ r2.tries = r.tries
                        /\ r2.updated_at = Cardinality(jobs') ]_vars

\* C21 (as claimed): after an attempt that left the job failed, errors/ holds
\* a record for the job that names the stage that failed and carries the
\* HTTP status of the last response of that stage and, when a response had
\* been received, a body.
C21_Original ==
    \A k \in TaskIds :
        LET t == tasks[k]
            r == Row(t.guid)
        IN  (t.pc = "done" /\ r.status = "failed")
            => \E e \in errors :
                  /\ e.guid = t.guid
                  /\ IF t.report_url = None
                     THEN /\ e.step = "metadata"
                          /\ e.status_code = t.r_meta
                          /\ t.r_meta # None => e.body = t.body
                     ELSE /\ e.step = "report"
                          /\ e.status_code = t.r_rep
                          /\ t.r_rep # None => e.body # None

\* C22: a task in wait_for_update after a 401/403 leaves the wait only when
\* get() yields a token that is set and differs from the old_token it waits
\* on (there is no timeout); as long as it waits, no result is recorded for
\* its job, gather does not return and no batch is claimed.
C22_RotationWaitBlocksPool ==
    [][ \A k \in TaskIds :
          tasks[k].pc \in { "meta_rot", "rep_rot" }
          => /\ (Len(tasks') = Len(tasks) /\ tasks'[k].pc \notin { tasks[k].pc, "cancelled" })
                 => /\ cache'.token # None
                    /\ cache'.token # tasks[k].token_used
             /\ \A r \in jobs : r.guid = tasks[k].guid => r \in jobs'
             /\ pool' # "loop"
             /\ Claimed = {} ]_vars

\* C22 witness: the metadata request of g1 sent with A got a 401, the token
\* file holds A and is never written again, and g2, enqueued after the batch
\* was claimed, has not been attempted
C22_Witness ==
    /\ writes = 0
    /\ \E k \in TaskIds :
          /\ tasks[k].pc = "meta_rot"
          /\ tasks[k].r_meta = Some(401)
          /\ tasks[k].token_used = tokFile.token
          /\ cache.token = tokFile.token /\ cache.mtime = tokFile.mtime
          /\ \E r \in jobs : /\ r.status = "pending" /\ r.tries = 0
                             /\ \A j \in TaskIds : tasks[j].guid # r.guid

\* C23 (as claimed): the step in which an interrupt stops the dispatch loop is
\* taken only when every job of the current batch has recorded its result.
C23_Original ==
    [][ (pool = "gather" /\ pool' = "exited")
        => \A k \in TaskIds : tasks[k].pc = "done" ]_vars

\* C25 (as claimed): a done row has 200 as http_status_meta and as
\* http_status_report, whatever earlier attempts of the job recorded.
C25_Original ==
    \A r \in jobs :
        r.status = "done"
        => /\ r.http_status_meta = Some(200)
           /\ r.http_status_report = Some(200)

\* C24 (as claimed): at a get() call with the token file's modification time
\* different from the cached one, get() returns the token the file holds now
\* (none when it holds none); with the modification time unchanged it returns
\* the cached token.
C24_Original ==
    /\ tokFile.mtime # cache.mtime => Get(tokFile, cache).token = tokFile.token
    /\ tokFile.mtime = cache.mtime => Get(tokFile, cache).token = cache.token

\* C24 (amended): with a different modification time and a token in the file,
\* get() replaces the cache entry, token and modification time, by the file's
\* and returns that token; with a different modification time and no token in
\* the file it leaves the entry as it is and returns the token cached before;
\* with the modification time unchanged it returns the cached token and
\* leaves the entry as it is.
C24_CacheTracksNonEmptySource ==
    /\ (tokFile.mtime # cache.mtime /\ tokFile.token # None)
        => Get(tokFile, cache) = [token |-> tokFile.token, mtime |-> tokFile.mtime]
    /\ (tokFile.mtime # cache.mtime /\ tokFile.token = None)
        => Get(tokFile, cache) = cache
    /\ tokFile.mtime = cache.mtime
        => Get(tokFile, cache) = cache

\* C24 witness: a task in a retry loop is about to call get() while the cache
\* holds a token read earlier and the file, written since, is empty
C24_Witness ==
    /\ cache.token # None
    /\ tokFile.token = None
    /\ tokFile.mtime # cache.mtime
    /\ \E k \in TaskIds : tasks[k].pc \in { "meta_sleep", "meta_sleep_auth", "meta_rot" }

====
